---- MODULE Spec2Model ----
(***************************************************************************)
(* A model of rust/src/r_api.rs (bdk_flutter): the Api facade over the     *)
(* wallet, the transaction builder, the fee-bump builder and the PSBT      *)
(* engine.  Every handler of Api is one action: its inputs are drawn from  *)
(* small sets, its body follows the handler statement by statement, and    *)
(* its outcome (a returned value, or a panic that unwinds out of the       *)
(* handler) is recorded in `result`.                                       *)
(*                                                                         *)
(* The handlers are thin; what they call in crate::psbt, crate::wallet and *)
(* the builder is not part of r_api.rs.  Those callees are modelled from   *)
(* the design document (sections 4.2 to 4.4) and are marked as such where  *)
(* they are defined.                                                       *)
(***************************************************************************)
EXTENDS Integers, Sequences, FiniteSets, TLC

VARIABLES
    call,            \* the Api call in progress: [op |-> ..., arguments], or NoCall
    result,          \* what the call ended with (see the Ret* operators)
    internal_index,  \* per wallet: next unused change-keychain address index
    pc,              \* per thread: position inside a wallet-mutating handler
    t_op,            \* per thread: the handler it runs
    t_wallet,        \* per thread: the wallet id it names
    t_index,         \* per thread: the change index it read
    lock,            \* per wallet: the thread holding the wallet's mutex guard, or NoThread
    issued           \* per wallet: the change indexes handed to finished builds, in order

vars == <<call, result, internal_index, pc, t_op, t_wallet, t_index, lock, issued>>

seqVars == <<call, result>>
concVars == <<pc, t_op, t_wallet, t_index, lock, issued>>

(***************************************************************************)
(* Bounds of the model.                                                    *)
(***************************************************************************)
NumKeys == 2        \* public keys that may sign a PSBT input: 1..NumKeys
MaxIndex == 2       \* change-address indexes a wallet hands out before the model stops it

WalletIds == {"w1", "w2"}
Keys == 1..NumKeys

\* The signing key each wallet holds.
WalletKey(w) == IF w = "w1" THEN 1 ELSE 2

(***************************************************************************)
(* Outcomes of a handler.                                                  *)
(***************************************************************************)
NoCall == [op |-> "none"]
NoResult == [tag |-> "none"]
RetOk(v) == [tag |-> "Ok", val |-> v]          \* anyhow::Result Ok(v)
RetErr(e) == [tag |-> "Err", err |-> e]        \* anyhow::bail!("{:?}", e)
RetSome(v) == [tag |-> "Some", val |-> v]      \* Option Some(v)
RetNone == [tag |-> "None"]                    \* Option None
RetValue(v) == [tag |-> "Value", val |-> v]    \* a plain (non-Result) return value
Panic(why) == [tag |-> "Panic", why |-> why]   \* unwrap / expect / panic!: the process aborts

(***************************************************************************)
(* PSBT engine (crate::psbt, modelled from section 4.4 of the design).     *)
(* A PSBT is an unsigned transaction, per input the set of public keys     *)
(* that have a partial signature, and whether the inputs carry their       *)
(* witness / non-witness UTXO record.                                      *)
(***************************************************************************)
TxIds == {"tx1", "tx2"}

\* tx1: two 2-of-NumKeys multi-signature inputs; tx2: one single-signature input.
NumInputs(t) == IF t = "tx1" THEN 2 ELSE 1
Required(t, i) == IF t = "tx1" THEN 2 ELSE 1
InputValue(t) == IF t = "tx1" THEN 100000 ELSE 20000
OutputValue(t) == IF t = "tx1" THEN 99000 ELSE 19800
VSize(t) == IF t = "tx1" THEN 250 ELSE 110

Psbts ==
    UNION { [tx : {t}, sigs : [1..NumInputs(t) -> SUBSET Keys], utxo : BOOLEAN] : t \in TxIds }

\* PartiallySignedTransaction::serialize: the textual encoding handed across the API.
Serialize(p) == <<"psbt", p.tx, p.sigs, p.utxo>>

\* Strings that are not the encoding of any PSBT.
MalformedPsbtStrings == { <<"garbage">>, <<"psbt">> }

PsbtStrings == { Serialize(p) : p \in Psbts } \cup MalformedPsbtStrings

\* PartiallySignedTransaction::new: Ok(psbt) for a structurally correct encoding,
\* Err otherwise.
ParsePsbt(s) ==
    IF Len(s) = 4 /\ s[1] = "psbt"
    THEN [ok |-> TRUE, psbt |-> [tx |-> s[2], sigs |-> s[3], utxo |-> s[4]]]
    ELSE [ok |-> FALSE, err |-> "Psbt(ParseError)"]

\* Every input meets its script's signature requirement.
FullySigned(p) ==
    \A i \in 1..NumInputs(p.tx) : Cardinality(p.sigs[i]) >= Required(p.tx, i)

\* PartiallySignedTransaction::extract_tx: the transaction of the PSBT, whatever
\* signatures it carries.
ExtractTx(p) == [txid |-> p.tx, signed_by |-> p.sigs]

\* PartiallySignedTransaction::fee_amount: inputs minus outputs, when the UTXO
\* records are there.
FeeAmount(p) ==
    IF p.utxo THEN [some |-> TRUE, val |-> InputValue(p.tx) - OutputValue(p.tx)]
    ELSE [some |-> FALSE]

\* PartiallySignedTransaction::fee_rate: fee over virtual size.
FeeRateOf(p) ==
    IF p.utxo
    THEN [some |-> TRUE, val |-> <<InputValue(p.tx) - OutputValue(p.tx), VSize(p.tx)>>]
    ELSE [some |-> FALSE]

\* PartiallySignedTransaction::combine: same unsigned transaction required; per
\* input the union of the partial signatures, and the other metadata merged.
Combine(a, b) ==
    IF a.tx # b.tx
    THEN [ok |-> FALSE, err |-> "Psbt(UnexpectedUnsignedTx)"]
    ELSE [ok |-> TRUE,
          psbt |-> [tx |-> a.tx,
                    sigs |-> [i \in 1..NumInputs(a.tx) |-> a.sigs[i] \cup b.sigs[i]],
                    utxo |-> a.utxo \/ b.utxo]]

\* Wallet::sign: the wallet signs every input with its key; fails when the
\* UTXO records needed to compute the signature hash are missing; answers
\* whether the PSBT is finalized afterwards.
WalletSign(w, p) ==
    IF ~p.utxo
    THEN [ok |-> FALSE, err |-> "Signer(MissingNonWitnessUtxo)"]
    ELSE LET signed == [p EXCEPT !.sigs =
                           [i \in 1..NumInputs(p.tx) |-> p.sigs[i] \cup {WalletKey(w)}]]
         IN  [ok |-> TRUE, finalized |-> FullySigned(signed), psbt |-> signed]

SignOptionsSet == { [some |-> FALSE] } \cup { [some |-> TRUE, is_multi_sig |-> m] : m \in BOOLEAN }

(***************************************************************************)
(* Handlers of the PartiallySignedTransaction section of Api.              *)
(***************************************************************************)
\* Api::serialize_psbt
SerializePsbtBody(psbt_str) ==
    LET psbt == ParsePsbt(psbt_str)
    IN  IF psbt.ok THEN RetOk(Serialize(psbt.psbt)) ELSE RetErr(psbt.err)

\* Api::psbt_txid
PsbtTxidBody(psbt_str) ==
    LET psbt == ParsePsbt(psbt_str)
    IN  IF psbt.ok THEN RetOk(psbt.psbt.tx) ELSE RetErr(psbt.err)

\* Api::extract_tx
ExtractTxBody(psbt_str) ==
    LET psbt == ParsePsbt(psbt_str)
    IN  IF psbt.ok THEN RetOk(ExtractTx(psbt.psbt)) ELSE RetErr(psbt.err)

\* Api::psbt_fee_rate
PsbtFeeRateBody(psbt_str) ==
    LET psbt == ParsePsbt(psbt_str)
    IN  IF ~psbt.ok THEN Panic("unwrap on Err: psbt")
        ELSE LET r == FeeRateOf(psbt.psbt)
             IN  IF r.some THEN RetSome(r.val) ELSE RetNone

\* Api::psbt_fee_amount
PsbtFeeAmountBody(psbt_str) ==
    LET psbt == ParsePsbt(psbt_str)
    IN  IF ~psbt.ok THEN Panic("unwrap on Err: psbt")
        ELSE LET r == FeeAmount(psbt.psbt)
             IN  IF r.some THEN RetSome(r.val) ELSE RetNone

\* CombinePsbtBody answering the first PSBT, not the combined one.
CombinePsbtBodyFirstOnly(psbt_str, other) ==
    LET psbt == ParsePsbt(psbt_str)
        oth == ParsePsbt(other)
    IN  IF ~psbt.ok THEN Panic("unwrap on Err: psbt")
        ELSE IF ~oth.ok THEN Panic("unwrap on Err: other")
        ELSE LET c == Combine(psbt.psbt, oth.psbt)
             IN  IF c.ok THEN RetOk(Serialize(psbt.psbt)) ELSE RetErr(c.err)

\* Api::combine_psbt
CombinePsbtBody(psbt_str, other) ==
    LET psbt == ParsePsbt(psbt_str)
        oth == ParsePsbt(other)
    IN  IF ~psbt.ok THEN Panic("unwrap on Err: psbt")
        ELSE IF ~oth.ok THEN Panic("unwrap on Err: other")
        ELSE LET c == Combine(psbt.psbt, oth.psbt)
             IN  IF c.ok THEN RetOk(Serialize(c.psbt)) ELSE RetErr(c.err)

\* Api::json_serialize
JsonSerializeBody(psbt_str) ==
    LET psbt == ParsePsbt(psbt_str)
    IN  IF ~psbt.ok THEN Panic("unwrap on Err: psbt")
        ELSE RetOk(<<"json", psbt.psbt.tx, psbt.psbt.sigs, psbt.psbt.utxo>>)

\* SignBody with is_multi_sig never read: a pass that does not finalize answers None.
SignBodyOptionsIgnored(wallet_id, psbt_str, sign_options) ==
    LET psbt == ParsePsbt(psbt_str)
    IN  IF ~psbt.ok THEN Panic("panic!: psbt")
        ELSE LET s == WalletSign(wallet_id, psbt.psbt)
             IN  IF ~s.ok THEN Panic("unwrap on Err: sign")
                 ELSE IF s.finalized THEN RetSome(Serialize(s.psbt))
                 ELSE RetNone

\* Api::sign
SignBody(wallet_id, psbt_str, sign_options) ==
    LET psbt == ParsePsbt(psbt_str)
    IN  IF ~psbt.ok THEN Panic("panic!: psbt")
        ELSE LET s == WalletSign(wallet_id, psbt.psbt)
             IN  IF ~s.ok THEN Panic("unwrap on Err: sign")
                 ELSE IF s.finalized THEN RetSome(Serialize(s.psbt))
                 ELSE IF sign_options.some
                      THEN IF sign_options.is_multi_sig
                           THEN RetSome(Serialize(s.psbt))
                           ELSE RetNone
                      ELSE RetNone

(***************************************************************************)
(* Keys and derivation paths (crate::key, modelled from section 4.1).      *)
(* A path string is "m" followed by segments; a segment ending in an       *)
(* apostrophe is hardened.  A secret string is an extended private key, a  *)
(* single private key, or not a key at all.                                *)
(***************************************************************************)
PathStrings == { <<"m", "0">>, <<"m", "44'", "0">>, <<"n", "0">>, <<"m", "x">> }
Segments == { "0", "44'" }
Hardened(seg) == seg = "44'"

\* DerivationPath::new
ParsePath(s) ==
    IF Len(s) >= 2 /\ s[1] = "m" /\ \A i \in 2..Len(s) : s[i] \in Segments
    THEN [ok |-> TRUE, path |-> SubSeq(s, 2, Len(s))]
    ELSE [ok |-> FALSE, err |-> "InvalidChildNumberFormat"]

SecretStrings == { <<"xprv", <<>> >>, <<"wif">>, <<"junk">> }
PublicStrings == { <<"xpub", <<>> >>, <<"junk">> }

\* BdkDescriptorSecretKey::from_str
ParseSecret(s) ==
    IF s[1] = "xprv" /\ Len(s) = 2 THEN [ok |-> TRUE, key |-> [kind |-> "xprv", path |-> s[2]]]
    ELSE IF s[1] = "wif" THEN [ok |-> TRUE, key |-> [kind |-> "single", path |-> <<>>]]
    ELSE [ok |-> FALSE, err |-> "Base58(BadByte)"]

\* DescriptorPublicKey::from_string
ParsePublic(s) ==
    IF s[1] = "xpub" /\ Len(s) = 2 THEN [ok |-> TRUE, key |-> [kind |-> "xpub", path |-> s[2]]]
    ELSE [ok |-> FALSE, err |-> "Base58(BadByte)"]

\* DescriptorSecretKey::as_string / DescriptorPublicKey::as_string
KeyString(k) == IF k.kind = "single" THEN <<"wif">> ELSE <<k.kind, k.path>>

\* DescriptorSecretKey::derive and ::extend: only an extended key can take a path.
SecretDerive(k, path) ==
    IF k.kind = "xprv"
    THEN [ok |-> TRUE, key |-> [k EXCEPT !.path = k.path \o path]]
    ELSE [ok |-> FALSE, err |-> "Generic(Cannot derive from a single key)"]

\* DescriptorPublicKey::derive and ::extend: a hardened segment needs the secret key.
PublicDerive(k, path) ==
    IF \E i \in 1..Len(path) : Hardened(path[i])
    THEN [ok |-> FALSE, err |-> "Bip32(CannotDeriveFromHardenedKey)"]
    ELSE [ok |-> TRUE, key |-> [k EXCEPT !.path = k.path \o path]]

\* Api::descriptor_secret_config, reached with path = Some(path) from
\* Api::extend_descriptor_secret (derive = false) and Api::derive_descriptor_secret
\* (derive = true), which return its key as a string.
DescriptorSecretConfig(secret, path, derive) ==
    LET sk == ParseSecret(secret)
        dp == ParsePath(path)
    IN  IF ~sk.ok THEN Panic("panic!: secret")
        ELSE IF ~dp.ok THEN Panic("unwrap on Err: derivation path")
        ELSE LET d == SecretDerive(sk.key, dp.path)
             IN  IF d.ok THEN RetValue(KeyString(d.key))
                 ELSE Panic("panic!: derive/extend")

\* Api::create_descriptor_public
CreateDescriptorPublicBody(xpub, path, derive) ==
    LET dp == ParsePath(path)
    IN  IF ~dp.ok THEN Panic("unwrap on Err: derivation path")
        ELSE IF ~xpub.some THEN Panic("unwrap on None: xpub")
        ELSE LET pk == ParsePublic(xpub.val)
             IN  IF ~pk.ok THEN Panic("unwrap on Err: xpub")
                 ELSE LET d == PublicDerive(pk.key, dp.path)
                      IN  IF d.ok THEN RetOk(KeyString(d.key)) ELSE RetErr(d.err)

\* Api::create_derivation_path
CreateDerivationPathBody(path) ==
    LET dp == ParsePath(path)
    IN  IF dp.ok THEN RetOk(<<"m">> \o dp.path) ELSE RetErr(dp.err)

\* 32-bit sequence numbers, held as <<high 16 bits, low 16 bits>>.
SeqLess(a, b) == a[1] < b[1] \/ (a[1] = b[1] /\ a[2] < b[2])
SEQ_MAX == <<65535, 65535>>                   \* 0xFFFFFFFF
SEQ_ENABLE_RBF_NO_LOCKTIME == <<65535, 65533>>    \* 0xFFFFFFFD
SEQ_RBF_LIMIT == <<65535, 65534>>             \* 0xFFFFFFFE

(***************************************************************************)
(* Transaction builder (modelled from section 4.2 of the design).          *)
(* Fee rates are f32 sat/vbyte in the code; here a rate is a whole number  *)
(* of 1/RateDen sat/vbyte.                                                 *)
(***************************************************************************)
RateDen == 2
TxBaseVb == 10            \* virtual size of a transaction without inputs and outputs
TxInVb == 68              \* virtual size of one wallet input
TxOutVb == 16             \* virtual size of one output
DustLimit == 546          \* an output below this value is never created
DefaultFeeRate == 2       \* 1 sat/vbyte, in effect when the caller sets no fee policy
MaxFeeRounds == 3         \* rounds of the fee/size iteration before it gives up
MinRelayIncrement == 2    \* 1 sat/vbyte: what a replacement must add to the original rate

(***************************************************************************)
(* Wallet state (crate::wallet and its database, external to r_api.rs).    *)
(***************************************************************************)
\* The UTXO set of each wallet.
WalletUtxos(w) ==
    IF w = "w1"
    THEN { [outpoint |-> "u1", value |-> 100000, keychain |-> "External", vb |-> TxInVb],
           [outpoint |-> "u2", value |-> 10000, keychain |-> "Internal", vb |-> TxInVb],
           [outpoint |-> "u3", value |-> 3000, keychain |-> "External", vb |-> TxInVb] }
    ELSE { [outpoint |-> "v1", value |-> 5000, keychain |-> "External", vb |-> TxInVb] }

RECURSIVE SumValues(_)
SumValues(S) ==
    IF S = {} THEN 0
    ELSE LET u == CHOOSE x \in S : TRUE IN u.value + SumValues(S \ {u})

RECURSIVE SumVb(_)
SumVb(S) ==
    IF S = {} THEN 0
    ELSE LET u == CHOOSE x \in S : TRUE IN u.vb + SumVb(S \ {u})

RECURSIVE SumAmounts(_)
SumAmounts(outs) ==
    IF outs = <<>> THEN 0 ELSE Head(outs).amount + SumAmounts(Tail(outs))

CeilDiv(a, b) == (a + b - 1) \div b

\* Wallet::build_tx: a builder with nothing set.
BuildTx(wallet_id) ==
    [wallet |-> wallet_id,
     recipients |-> <<>>,
     change_policy |-> "ChangeAllowed",
     utxos |-> {},
     unspendable |-> {},
     manually_selected_only |-> FALSE,
     fee_policy |-> [kind |-> "none"],
     fee_setters |-> <<>>,
     drain_wallet |-> FALSE,
     drain_to |-> [some |-> FALSE],
     rbf |-> [kind |-> "none"],
     data |-> 0,
     bumping |-> [some |-> FALSE]]

\* Virtual size of a transaction with these inputs, n_out outputs and the
\* embedded payload.
VBytes(inputs, n_out, data) == TxBaseVb + SumVb(inputs) + n_out * TxOutVb + data

\* The fee the builder's policy asks for a transaction of that shape.
PolicyFee(b, inputs, n_out) ==
    IF b.fee_policy.kind = "absolute" THEN b.fee_policy.amount
    ELSE LET rate == IF b.fee_policy.kind = "rate" THEN b.fee_policy.rate ELSE DefaultFeeRate
         IN  CeilDiv(VBytes(inputs, n_out, b.data) * rate, RateDen)

\* What automatic selection may draw from: the wallet's UTXOs that are not
\* unspendable, not already required, and allowed by the change policy.
Eligible(b) ==
    { u \in WalletUtxos(b.wallet) :
        /\ u.outpoint \notin b.unspendable
        /\ u \notin b.utxos
        /\ (b.change_policy = "ChangeForbidden" => u.keychain # "Internal")
        /\ (b.change_policy = "OnlyChange" => u.keychain = "Internal") }

Largest(S) == CHOOSE u \in S : \A v \in S : u.value >= v.value

\* Outputs the caller asked for: the recipients and the embedded-data output.
FixedOutputs(b) ==
    b.recipients \o (IF b.data > 0 THEN << [script |-> "op_return", amount |-> 0] >> ELSE <<>>)

\* The fee/size fixed point: add inputs until they cover the recipients and the
\* fee of the transaction they make, for at most MaxFeeRounds rounds.
RECURSIVE SelectCoins(_, _, _, _)
SelectCoins(b, selected, rest, round) ==
    IF round > MaxFeeRounds THEN [ok |-> FALSE, err |-> "FeeEstimationFailed"]
    ELSE IF SumValues(selected) >=
              SumAmounts(b.recipients) + PolicyFee(b, selected, Len(FixedOutputs(b)))
    THEN [ok |-> TRUE, inputs |-> selected]
    ELSE IF rest = {} THEN [ok |-> FALSE, err |-> "InsufficientFunds"]
    ELSE SelectCoins(b, selected \cup {Largest(rest)}, rest \ {Largest(rest)}, round + 1)

\* The input sequence number the RBF setting asks for.
SequenceOf(b) ==
    IF b.rbf.kind = "none" THEN SEQ_MAX
    ELSE IF b.rbf.kind = "default" THEN SEQ_ENABLE_RBF_NO_LOCKTIME
    ELSE b.rbf.n

\* Steps 4 and 5 of finish: the change (or drain) output, or the leftover folded
\* into the fee.  `index` is the wallet's next unused change index.
WithChange(b, inputs, index) ==
    LET fixed == FixedOutputs(b)
        total == SumValues(inputs)
        target == SumAmounts(b.recipients)
        fee_with_change == PolicyFee(b, inputs, Len(fixed) + 1)
        change == total - target - fee_with_change
        change_script == IF b.drain_to.some THEN b.drain_to.script ELSE <<"internal", index>>
    IN  IF change >= DustLimit
        THEN [ok |-> TRUE,
              tx |-> [inputs |-> inputs,
                      outputs |-> Append(fixed, [script |-> change_script, amount |-> change]),
                      sequence |-> SequenceOf(b)],
              fee |-> fee_with_change,
              used_index |-> ~b.drain_to.some]
        ELSE IF fixed = <<>>
        THEN [ok |-> FALSE, err |-> "InsufficientFunds"]
        ELSE [ok |-> TRUE,
              tx |-> [inputs |-> inputs, outputs |-> fixed, sequence |-> SequenceOf(b)],
              fee |-> total - target,
              used_index |-> FALSE]

\* TxBuilder::finish, in the order of the steps of section 4.2: a fee bump is
\* checked against the original rate, inputs are selected (steps 1 to 3, and 5
\* for drain_wallet), outputs are completed (step 4), the RBF sequence is
\* validated (step 6).
Finish(b, index) ==
    IF b.bumping.some /\ ~(b.fee_policy.rate > b.bumping.rate + MinRelayIncrement)
    THEN [ok |-> FALSE, err |-> "FeeRateTooLow"]
    ELSE
      LET candidates == IF b.manually_selected_only THEN {} ELSE Eligible(b)
          sel == IF b.drain_wallet
                 THEN SelectCoins(b, b.utxos \cup candidates, {}, 1)
                 ELSE SelectCoins(b, b.utxos, candidates, 1)
      IN  IF ~sel.ok THEN sel
          ELSE IF FixedOutputs(b) = <<>> /\ ~b.drain_to.some
          THEN [ok |-> FALSE, err |-> "NoRecipients"]
          ELSE LET out == WithChange(b, sel.inputs, index)
               IN  IF ~out.ok THEN out
                   ELSE IF b.rbf.kind = "value" /\ ~SeqLess(b.rbf.n, SEQ_RBF_LIMIT)
                   THEN [ok |-> FALSE,
                         err |-> "Generic(Cannot enable RBF with a nSequence >= 0xFFFFFFFE)"]
                   ELSE out

(***************************************************************************)
(* Api::tx_builder_finish, statement by statement.                         *)
(***************************************************************************)
\* for e in recipients { tx_builder.add_recipient(..) }
AddRecipients(b, recipients) == [b EXCEPT !.recipients = @ \o recipients]

\* SetChangePolicy with the caller's policy never passed on.
SetChangePolicyDropped(b, change_policy) == b

\* tx_builder.change_policy(change_policy.into())
SetChangePolicy(b, change_policy) == [b EXCEPT !.change_policy = change_policy]

\* if !utxos.is_empty() { tx_builder.add_utxos(utxos).unwrap() }: add_utxos fails
\* on an outpoint the wallet does not hold.
AddUtxos(b, utxos) ==
    IF utxos = {} THEN [ok |-> TRUE, b |-> b]
    ELSE IF \A o \in utxos : \E u \in WalletUtxos(b.wallet) : u.outpoint = o
    THEN [ok |-> TRUE,
          b |-> [b EXCEPT !.utxos = @ \cup { u \in WalletUtxos(b.wallet) : u.outpoint \in utxos }]]
    ELSE [ok |-> FALSE, why |-> "unwrap on Err: add_utxos UnknownUtxo"]

\* if !unspendable.is_empty() { tx_builder.unspendable(..) }
SetUnspendable(b, unspendable) ==
    IF unspendable = {} THEN b ELSE [b EXCEPT !.unspendable = unspendable]

\* SetManuallySelectedOnly with the flag never passed on.
SetManuallySelectedOnlyDropped(b, flag) == b

\* if manually_selected_only { tx_builder.manually_selected_only() }
SetManuallySelectedOnly(b, flag) ==
    IF flag THEN [b EXCEPT !.manually_selected_only = TRUE] ELSE b

\* SetFeePolicy with the two statements in the other order: the rate is set last.
SetFeePolicyRateLast(b, fee_rate, fee_absolute) ==
    LET b1 == IF fee_absolute.some
              THEN [b EXCEPT !.fee_policy = [kind |-> "absolute", amount |-> fee_absolute.val],
                             !.fee_setters = Append(@, "fee_absolute")]
              ELSE b
    IN  IF fee_rate.some
        THEN [b1 EXCEPT !.fee_policy = [kind |-> "rate", rate |-> fee_rate.val],
                        !.fee_setters = Append(@, "fee_rate")]
        ELSE b1

\* if let Some(..) = fee_rate { tx_builder.fee_rate(..) }
\* if let Some(..) = fee_absolute { tx_builder.fee_absolute(..) }
SetFeePolicy(b, fee_rate, fee_absolute) ==
    LET b1 == IF fee_rate.some
              THEN [b EXCEPT !.fee_policy = [kind |-> "rate", rate |-> fee_rate.val],
                             !.fee_setters = Append(@, "fee_rate")]
              ELSE b
    IN  IF fee_absolute.some
        THEN [b1 EXCEPT !.fee_policy = [kind |-> "absolute", amount |-> fee_absolute.val],
                        !.fee_setters = Append(@, "fee_absolute")]
        ELSE b1

\* if drain_wallet { tx_builder.drain_wallet() }
\* if let Some(script_) = drain_to { tx_builder.drain_to(..) }
SetDrain(b, drain_wallet, drain_to) ==
    LET b1 == IF drain_wallet THEN [b EXCEPT !.drain_wallet = TRUE] ELSE b
    IN  IF drain_to.some THEN [b1 EXCEPT !.drain_to = drain_to] ELSE b1

\* if let Some(f_utxo) = foreign_utxo { to_input(..); add_foreign_utxo(..).expect(..) }:
\* to_input panics on a string that is no PSBT input, add_foreign_utxo fails on an
\* input without its UTXO record.
AddForeignUtxo(b, f) ==
    IF ~f.some THEN [ok |-> TRUE, b |-> b]
    ELSE IF f.input[1] # "input"
    THEN [ok |-> FALSE, why |-> "expect: to_input"]
    ELSE IF Len(f.input) < 2
    THEN [ok |-> FALSE, why |-> "expect: Error adding foreign_utxo!"]
    ELSE [ok |-> TRUE,
          b |-> [b EXCEPT !.utxos = @ \cup { [outpoint |-> f.outpoint, value |-> f.input[2],
                                              keychain |-> "Foreign",
                                              vb |-> 41 + f.weight \div 4] }]]

\* SetRbf with both arms calling enable_rbf(): the caller's sequence is dropped.
SetRbfDefaultOnly(b, rbf) ==
    IF ~rbf.some THEN b ELSE [b EXCEPT !.rbf = [kind |-> "default"]]

\* if let Some(rbf) = &rbf { match *rbf { RbfDefault => enable_rbf(),
\*                                        Value(n) => enable_rbf_with_sequence(n) } }
SetRbf(b, rbf) ==
    IF ~rbf.some THEN b
    ELSE IF rbf.kind = "RbfDefault" THEN [b EXCEPT !.rbf = [kind |-> "default"]]
    ELSE [b EXCEPT !.rbf = [kind |-> "value", n |-> rbf.n]]

\* if !data.is_empty() { tx_builder.add_data(..) }
AddData(b, data) == IF data = 0 THEN b ELSE [b EXCEPT !.data = data]

\* Lines 187 to 240: the builder as configured when finish is called, or the
\* panic that ended the handler before.
TxBuilderConfigure(a) ==
    LET b1 == SetChangePolicy(AddRecipients(BuildTx(a.wallet_id), a.recipients), a.change_policy)
        u == AddUtxos(b1, a.utxos)
    IN  IF ~u.ok THEN u
        ELSE LET b2 == SetDrain(
                         SetFeePolicy(
                           SetManuallySelectedOnly(SetUnspendable(u.b, a.unspendable),
                                                   a.manually_selected_only),
                           a.fee_rate, a.fee_absolute),
                         a.drain_wallet, a.drain_to)
                 f == AddForeignUtxo(b2, a.foreign_utxo)
             IN  IF ~f.ok THEN f
                 ELSE [ok |-> TRUE, b |-> AddData(SetRbf(f.b, a.rbf), a.data)]

\* The PSBT of a freshly built transaction: no signature yet.
UnsignedPsbt(tx) == [tx |-> tx, sigs |-> <<>>, utxo |-> TRUE]

\* return match tx_builder.finish() { Ok(e) => Ok(BdkTxBuilderResult(..)),
\*                                    Err(e) => anyhow::bail!(..) }
FinishResult(f) ==
    IF f.ok
    THEN RetOk([psbt |-> Serialize(UnsignedPsbt(f.tx)), details |-> [fee |-> f.fee]])
    ELSE RetErr(f.err)

\* Api::tx_builder_finish: the outcome, the builder handed to finish, and the
\* wallet's next change index afterwards.
TxBuilderFinishBody(a, index) ==
    LET c == TxBuilderConfigure(a)
    IN  IF ~c.ok
        THEN [result |-> Panic(c.why), configured |-> FALSE, next_index |-> index]
        ELSE LET f == Finish(c.b, index)
             IN  [result |-> FinishResult(f), configured |-> TRUE, builder |-> c.b,
                  next_index |-> IF f.ok /\ f.used_index THEN index + 1 ELSE index]

(***************************************************************************)
(* Fee-bump builder (modelled from section 4.3 of the design).             *)
(***************************************************************************)
\* The transactions each wallet knows: txA is unconfirmed and pays 2 sat/vbyte
\* (220 sat for 110 vbytes), txB is confirmed.
WalletTxs(w) ==
    IF w = "w1"
    THEN { [txid |-> "txA", confirmed |-> FALSE,
            inputs |-> { [outpoint |-> "s1", value |-> 50000, keychain |-> "External",
                          vb |-> TxInVb] },
            recipients |-> << [script |-> "r1", amount |-> 30000] >>,
            rate |-> 4],
           [txid |-> "txB", confirmed |-> TRUE,
            inputs |-> { [outpoint |-> "s2", value |-> 40000, keychain |-> "External",
                          vb |-> TxInVb] },
            recipients |-> << [script |-> "r1", amount |-> 39000] >>,
            rate |-> 4] }
    ELSE {}

\* Txid::from_str succeeds on these.
WellFormedTxids == { "txA", "txB", "txF" }
TxidStrings == WellFormedTxids \cup { "zz" }

\* BdkAddress::from_str succeeds on these, and Address::script_pubkey gives the script.
AddressScript(addr) == IF addr = "addr_r1" THEN "r1" ELSE "r9"
WellFormedAddresses == { "addr_r1", "addr_r9" }
AddressStrings == WellFormedAddresses \cup { "bad" }

\* Wallet::build_fee_bump: only a transaction of the wallet that is still
\* unconfirmed can be replaced; its inputs and its recipients are kept.
BuildFeeBump(wallet_id, txid) ==
    IF \E t \in WalletTxs(wallet_id) : t.txid = txid /\ ~t.confirmed
    THEN LET t == CHOOSE x \in WalletTxs(wallet_id) : x.txid = txid
         IN  [ok |-> TRUE,
              b |-> [BuildTx(wallet_id) EXCEPT !.utxos = t.inputs,
                                               !.recipients = t.recipients,
                                               !.bumping = [some |-> TRUE, rate |-> t.rate]]]
    ELSE [ok |-> FALSE, err |-> "IrreplaceableTransaction"]

\* TxBuilder::allow_shrinking: the named output gives way to the fee; fails when
\* the transaction has no output with that script.
AllowShrinking(b, script) ==
    IF \E i \in 1..Len(b.recipients) : b.recipients[i].script = script
    THEN [ok |-> TRUE,
          b |-> [b EXCEPT !.recipients = SelectSeq(@, LAMBDA r : r.script # script),
                          !.drain_to = [some |-> TRUE, script |-> script]]]
    ELSE [ok |-> FALSE, err |-> "Generic(no recipient with that script)"]

\* if let Some(allow_shrinking) = &allow_shrinking {
\*     BdkAddress::from_str(..).unwrap(); tx_builder.allow_shrinking(script).unwrap() }
SetAllowShrinking(b, allow_shrinking) ==
    IF ~allow_shrinking.some THEN [ok |-> TRUE, b |-> b]
    ELSE IF allow_shrinking.val \notin WellFormedAddresses
    THEN [ok |-> FALSE, why |-> "unwrap on Err: address"]
    ELSE LET r == AllowShrinking(b, AddressScript(allow_shrinking.val))
         IN  IF r.ok THEN r ELSE [ok |-> FALSE, why |-> "unwrap on Err: allow_shrinking"]

\* if let Some(n_sequence) = n_sequence { tx_builder.enable_rbf_with_sequence(..) }
\* if enable_rbf { tx_builder.enable_rbf() }
SetBumpRbf(b, enable_rbf, n_sequence) ==
    LET b1 == IF n_sequence.some
              THEN [b EXCEPT !.rbf = [kind |-> "value", n |-> n_sequence.val]]
              ELSE b
    IN  IF enable_rbf THEN [b1 EXCEPT !.rbf = [kind |-> "default"]] ELSE b1

\* tx_builder.fee_rate(bdk::FeeRate::from_sat_per_vb(fee_rate))
SetBumpFeeRate(b, fee_rate) ==
    [b EXCEPT !.fee_policy = [kind |-> "rate", rate |-> fee_rate],
              !.fee_setters = Append(@, "fee_rate")]

\* Api::bump_fee_tx_builder_finish
BumpFeeTxBuilderFinishBody(a, index) ==
    IF a.txid \notin WellFormedTxids
    THEN [result |-> Panic("unwrap on Err: txid"), configured |-> FALSE, next_index |-> index]
    ELSE LET fb == BuildFeeBump(a.wallet_id, a.txid)
         IN  IF ~fb.ok
             THEN [result |-> RetErr(fb.err), configured |-> FALSE, next_index |-> index]
             ELSE LET s == SetAllowShrinking(SetBumpFeeRate(fb.b, a.fee_rate), a.allow_shrinking)
                  IN  IF ~s.ok
                      THEN [result |-> Panic(s.why), configured |-> FALSE, next_index |-> index]
                      ELSE LET b == SetBumpRbf(s.b, a.enable_rbf, a.n_sequence)
                               f == Finish(b, index)
                           IN  [result |-> FinishResult(f), configured |-> TRUE, builder |-> b,
                                next_index |-> IF f.ok /\ f.used_index THEN index + 1
                                               ELSE index]

(***************************************************************************)
(* The inputs the callers supply.                                          *)
(***************************************************************************)
Opt(S) == { [some |-> FALSE] } \cup { [some |-> TRUE, val |-> v] : v \in S }

RecipientChoices ==
    { <<>>,
      << [script |-> "r1", amount |-> 2000] >>,
      << [script |-> "r1", amount |-> 20000] >>,
      << [script |-> "r1", amount |-> 50000] >>,
      << [script |-> "r1", amount |-> 99800] >>,
      << [script |-> "r1", amount |-> 111000] >> }
UtxoChoices == { {}, {"u1"}, {"u2"}, {"ux"} }
UnspendableChoices == { {}, {"u1"} }
ForeignChoices ==
    { [some |-> FALSE],
      [some |-> TRUE, outpoint |-> "f1", input |-> <<"input", 7000>>, weight |-> 108],
      [some |-> TRUE, outpoint |-> "f1", input |-> <<"junk">>, weight |-> 108] }
ChangePolicies == { "ChangeAllowed", "OnlyChange", "ChangeForbidden" }
FeeRateChoices == Opt({2, 3})
FeeAbsoluteChoices == Opt({150})
DrainToChoices == { [some |-> FALSE], [some |-> TRUE, script |-> "d1"] }
RbfChoices ==
    { [some |-> FALSE],
      [some |-> TRUE, kind |-> "RbfDefault"],
      [some |-> TRUE, kind |-> "Value", n |-> <<0, 5>>],
      [some |-> TRUE, kind |-> "Value", n |-> SEQ_RBF_LIMIT] }
DataChoices == { 0, 4 }

\* One recipient of 50,000 sat, everything else left unset.
BaseArgs ==
    [wallet_id |-> "w1", recipients |-> << [script |-> "r1", amount |-> 50000] >>,
     utxos |-> {}, foreign_utxo |-> [some |-> FALSE], unspendable |-> {},
     change_policy |-> "ChangeAllowed", manually_selected_only |-> FALSE,
     fee_rate |-> [some |-> FALSE], fee_absolute |-> [some |-> FALSE],
     drain_wallet |-> FALSE, drain_to |-> [some |-> FALSE], rbf |-> [some |-> FALSE],
     data |-> 0]

\* Calls that vary what coin selection reads.
SelectionArgs ==
    { [BaseArgs EXCEPT !.wallet_id = w, !.recipients = r, !.utxos = u, !.foreign_utxo = f,
                       !.unspendable = x, !.change_policy = c,
                       !.manually_selected_only = m, !.drain_wallet = d] :
        w \in WalletIds, r \in RecipientChoices, u \in UtxoChoices, f \in ForeignChoices,
        x \in UnspendableChoices, c \in ChangePolicies, m \in BOOLEAN, d \in BOOLEAN }

\* Calls that vary what the fee and the outputs are computed from.
FeeArgs ==
    { [BaseArgs EXCEPT !.recipients = r, !.utxos = u, !.manually_selected_only = m,
                       !.fee_rate = fr, !.fee_absolute = fa, !.drain_wallet = d,
                       !.drain_to = dt, !.data = n, !.foreign_utxo = f] :
        r \in RecipientChoices, u \in UtxoChoices, m \in BOOLEAN, fr \in FeeRateChoices,
        fa \in FeeAbsoluteChoices, d \in BOOLEAN, dt \in DrainToChoices, n \in DataChoices,
        f \in { g \in ForeignChoices : g.some => g.input[1] = "input" } }

\* Calls that vary the RBF setting.
RbfArgs ==
    { [BaseArgs EXCEPT !.recipients = r, !.utxos = u, !.manually_selected_only = m,
                       !.fee_rate = fr, !.fee_absolute = fa, !.rbf = b] :
        r \in RecipientChoices, u \in UtxoChoices, m \in BOOLEAN, fr \in FeeRateChoices,
        fa \in FeeAbsoluteChoices, b \in RbfChoices }

TxBuilderArgs == SelectionArgs \cup FeeArgs \cup RbfArgs

\* Calls that vary what the fee/size iteration of finish reads: the inputs it may
\* select and the fee policy.
FinishArgs ==
    SelectionArgs \cup { a \in FeeArgs : ~a.foreign_utxo.some /\ ~a.drain_to.some }

BumpFeeArgs ==
    [txid : TxidStrings, fee_rate : {4, 6, 7, 8}, allow_shrinking : Opt(AddressStrings),
     wallet_id : WalletIds, enable_rbf : BOOLEAN,
     n_sequence : Opt({ <<0, 5>>, SEQ_RBF_LIMIT })]

(***************************************************************************)
(* The sequential view: one Api call at a time, each handler one action.   *)
(***************************************************************************)
Threads == { "t1", "t2" }
NoThread == "none"

Init ==
    /\ call = NoCall
    /\ result = NoResult
    /\ internal_index = [w \in WalletIds |-> 0]
    /\ pc = [t \in Threads |-> "idle"]
    /\ t_op = [t \in Threads |-> "none"]
    /\ t_wallet = [t \in Threads |-> "none"]
    /\ t_index = [t \in Threads |-> 0]
    /\ lock = [w \in WalletIds |-> NoThread]
    /\ issued = [w \in WalletIds |-> <<>>]

\* A handler that touches no wallet state.
Pure(c, r) ==
    /\ call' = c
    /\ result' = r
    /\ UNCHANGED <<internal_index, concVars>>

SerializePsbt ==
    /\ call = NoCall
    /\ \E s \in PsbtStrings :
        Pure([op |-> "serialize_psbt", psbt_str |-> s], SerializePsbtBody(s))

PsbtTxid ==
    /\ call = NoCall
    /\ \E s \in PsbtStrings :
        Pure([op |-> "psbt_txid", psbt_str |-> s], PsbtTxidBody(s))

ExtractTxCall ==
    /\ call = NoCall
    /\ \E s \in PsbtStrings :
        Pure([op |-> "extract_tx", psbt_str |-> s], ExtractTxBody(s))

PsbtFeeRate ==
    /\ call = NoCall
    /\ \E s \in PsbtStrings :
        Pure([op |-> "psbt_fee_rate", psbt_str |-> s], PsbtFeeRateBody(s))

PsbtFeeAmount ==
    /\ call = NoCall
    /\ \E s \in PsbtStrings :
        Pure([op |-> "psbt_fee_amount", psbt_str |-> s], PsbtFeeAmountBody(s))

CombinePsbt ==
    /\ call = NoCall
    /\ \E s \in PsbtStrings, o \in PsbtStrings :
        Pure([op |-> "combine_psbt", psbt_str |-> s, other |-> o], CombinePsbtBody(s, o))

JsonSerialize ==
    /\ call = NoCall
    /\ \E s \in PsbtStrings :
        Pure([op |-> "json_serialize", psbt_str |-> s], JsonSerializeBody(s))

Sign ==
    /\ call = NoCall
    /\ \E w \in WalletIds, s \in PsbtStrings, o \in SignOptionsSet :
        Pure([op |-> "sign", wallet_id |-> w, psbt_str |-> s, sign_options |-> o],
                 SignBody(w, s, o))

ExtendDescriptorSecret ==
    /\ call = NoCall
    /\ \E k \in SecretStrings, p \in PathStrings :
        Pure([op |-> "extend_descriptor_secret", secret |-> k, path |-> p],
                 DescriptorSecretConfig(k, p, FALSE))

DeriveDescriptorSecret ==
    /\ call = NoCall
    /\ \E k \in SecretStrings, p \in PathStrings :
        Pure([op |-> "derive_descriptor_secret", secret |-> k, path |-> p],
                 DescriptorSecretConfig(k, p, TRUE))

CreateDescriptorPublic ==
    /\ call = NoCall
    /\ \E k \in Opt(PublicStrings), p \in PathStrings, d \in BOOLEAN :
        Pure([op |-> "create_descriptor_public", xpub |-> k, path |-> p, derive |-> d],
                 CreateDescriptorPublicBody(k, p, d))

CreateDerivationPath ==
    /\ call = NoCall
    /\ \E p \in PathStrings :
        Pure([op |-> "create_derivation_path", path |-> p], CreateDerivationPathBody(p))

\* A handler that builds a transaction under the wallet's guard.
Build(op, a, out) ==
    /\ internal_index[a.wallet_id] < MaxIndex
    /\ call' = IF out.configured
               THEN [op |-> op, args |-> a, configured |-> TRUE, builder |-> out.builder]
               ELSE [op |-> op, args |-> a, configured |-> FALSE]
    /\ result' = out.result
    /\ internal_index' = [internal_index EXCEPT ![a.wallet_id] = out.next_index]
    /\ UNCHANGED concVars

TxBuilderFinish ==
    /\ call = NoCall
    /\ \E a \in TxBuilderArgs :
        Build("tx_builder_finish", a, TxBuilderFinishBody(a, internal_index[a.wallet_id]))

BumpFeeTxBuilderFinish ==
    /\ call = NoCall
    /\ \E a \in BumpFeeArgs :
        Build("bump_fee_tx_builder_finish", a,
                  BumpFeeTxBuilderFinishBody(a, internal_index[a.wallet_id]))

\* The call is over; the caller may make the next one.
Return ==
    /\ call # NoCall
    /\ result.tag # "Panic"
    /\ call' = NoCall
    /\ result' = NoResult
    /\ UNCHANGED <<internal_index, concVars>>

Next ==
    \/ SerializePsbt \/ PsbtTxid \/ ExtractTxCall \/ PsbtFeeRate \/ PsbtFeeAmount
    \/ CombinePsbt \/ JsonSerialize \/ Sign
    \/ ExtendDescriptorSecret \/ DeriveDescriptorSecret \/ CreateDescriptorPublic
    \/ CreateDerivationPath
    \/ TxBuilderFinish \/ BumpFeeTxBuilderFinish
    \/ Return

Spec == Init /\ [][Next]_vars

(***************************************************************************)
(* Properties of the sequential view.                                      *)
(***************************************************************************)
IsCall(op) == call.op = op

\* The transaction and the fee of a successful build.
BuiltTx == result.val.psbt[2]
BuiltFee == result.val.details.fee
BuildOk(op) == IsCall(op) /\ result.tag = "Ok"

\* C1: every public operation, whatever the caller supplies, ends by returning
\* a typed success or failure value; no execution ends in a process abort.
C1_NoAbort == result.tag # "Panic"

\* C2: extract_tx on a structurally valid PSBT succeeds if and only if every
\* input meets its signature requirement, and otherwise returns the failure
\* IncompletePsbt and no transaction.
C2_ExtractIffSigned ==
    (IsCall("extract_tx") /\ ParsePsbt(call.psbt_str).ok) =>
        LET p == ParsePsbt(call.psbt_str).psbt
        IN  /\ result.tag = "Ok" <=> FullySigned(p)
            /\ ~FullySigned(p) => result = RetErr("IncompletePsbt")

\* C3: the result of sign tells a pass that reached only part of the required
\* signatures from one that completed signing.  A completed pass returns
\* Some(psbt), so no pass that leaves an input short of its requirement may
\* return Some(psbt) as well.
C3_SignTellsCompletion ==
    (IsCall("sign") /\ result.tag = "Some") => FullySigned(ParsePsbt(result.val).psbt)

\* The fee policy a build ran under: the absolute fee when one was supplied,
\* else the supplied rate, else the default rate.
AppliedAbsolute == call.args.fee_absolute.some
AppliedRate ==
    IF call.args.fee_rate.some THEN call.args.fee_rate.val ELSE DefaultFeeRate
BuiltVBytes == VBytes(BuiltTx.inputs, Len(BuiltTx.outputs), call.args.data)
HasChange ==
    Len(BuiltTx.outputs) >
        Len(call.args.recipients) + (IF call.args.data > 0 THEN 1 ELSE 0)
Conserved == SumValues(BuiltTx.inputs) = SumAmounts(BuiltTx.outputs) + BuiltFee
WithinOneSat(fee, vbytes, rate) ==
    /\ fee * RateDen >= vbytes * rate - RateDen
    /\ fee * RateDen <= vbytes * rate + RateDen

C5_RbfSequence ==
    BuildOk("tx_builder_finish") =>
        LET rbf == call.args.rbf
        IN  /\ ~rbf.some => BuiltTx.sequence = SEQ_MAX
            /\ rbf.some => SeqLess(BuiltTx.sequence, SEQ_RBF_LIMIT)
            /\ (rbf.some /\ rbf.kind = "RbfDefault") =>
                   BuiltTx.sequence = SEQ_ENABLE_RBF_NO_LOCKTIME
            /\ (rbf.some /\ rbf.kind = "Value") => BuiltTx.sequence = rbf.n

\* A successful build with an explicit sequence number.
C5_Witness ==
    /\ BuildOk("tx_builder_finish")
    /\ call.args.rbf.some
    /\ call.args.rbf.kind = "Value"
    /\ BuiltTx.sequence = <<0, 5>>

\* C6: combine_psbt of two valid PSBTs with the same unsigned transaction
\* returns a PSBT of that transaction whose partial signatures are, per input,
\* the union of the two; with different unsigned transactions it returns an
\* error and no PSBT.
C6_CombineUnion ==
    (IsCall("combine_psbt") /\ ParsePsbt(call.psbt_str).ok /\ ParsePsbt(call.other).ok) =>
        LET a == ParsePsbt(call.psbt_str).psbt
            b == ParsePsbt(call.other).psbt
        IN  /\ a.tx = b.tx =>
                /\ result.tag = "Ok"
                /\ ParsePsbt(result.val).ok
                /\ ParsePsbt(result.val).psbt.tx = a.tx
                /\ \A i \in 1..NumInputs(a.tx) :
                       ParsePsbt(result.val).psbt.sigs[i] = a.sigs[i] \cup b.sigs[i]
            /\ a.tx # b.tx => result.tag = "Err"

\* Two PSBTs of tx1 signed by different keys, combined into one that carries both.
C6_Witness ==
    /\ IsCall("combine_psbt")
    /\ result.tag = "Ok"
    /\ ParsePsbt(call.psbt_str).psbt.sigs = <<{1}, {}>>
    /\ ParsePsbt(call.other).psbt.sigs = <<{2}, {2}>>
    /\ ParsePsbt(result.val).psbt.sigs = <<{1, 2}, {2}>>

\* C7: with manually_selected_only the inputs of a built transaction are
\* exactly the must-include UTXOs and the foreign UTXO; when their value is
\* below the recipients plus the fee, the call fails with InsufficientFunds
\* and returns no PSBT, whatever else the wallet holds.
ManualOutpoints ==
    call.args.utxos \cup
        (IF call.args.foreign_utxo.some THEN {call.args.foreign_utxo.outpoint} ELSE {})
WellFormedManual ==
    /\ \A o \in call.args.utxos : \E u \in WalletUtxos(call.args.wallet_id) : u.outpoint = o
    /\ call.args.foreign_utxo.some =>
           /\ call.args.foreign_utxo.input[1] = "input"
           /\ Len(call.args.foreign_utxo.input) = 2
C7_ManualOnly ==
    (IsCall("tx_builder_finish") /\ call.args.manually_selected_only /\ WellFormedManual) =>
        /\ call.configured
        /\ result.tag = "Ok" =>
               { u.outpoint : u \in BuiltTx.inputs } = ManualOutpoints
        /\ SumValues(call.builder.utxos) <
               SumAmounts(call.args.recipients)
                   + PolicyFee(call.builder, call.builder.utxos, Len(FixedOutputs(call.builder)))
           => result = RetErr("InsufficientFunds")

\* The design's scenario: 10,000 sat selected by hand, 20,000 sat to pay, and a
\* wallet that holds 100,000 sat more.
C7_Witness ==
    /\ IsCall("tx_builder_finish")
    /\ call.args.manually_selected_only
    /\ call.args.utxos = {"u2"}
    /\ ~call.args.foreign_utxo.some
    /\ SumAmounts(call.args.recipients) = 20000
    /\ call.args.unspendable = {}
    /\ result = RetErr("InsufficientFunds")

\* C8: bump_fee_tx_builder_finish returns a PSBT only for a wallet-owned,
\* unconfirmed transaction and a rate above the original rate plus the minimum
\* relay increment; a confirmed or foreign transaction is rejected with
\* IrreplaceableTransaction, a rate not above that bound is rejected, both with
\* an error and no PSBT.
Replaceable(w, txid) == \E t \in WalletTxs(w) : t.txid = txid /\ ~t.confirmed
OriginalRate(w, txid) == (CHOOSE t \in WalletTxs(w) : t.txid = txid).rate
C8_BumpRule ==
    IsCall("bump_fee_tx_builder_finish") =>
        LET a == call.args
        IN  /\ result.tag = "Ok" =>
                /\ Replaceable(a.wallet_id, a.txid)
                /\ a.fee_rate > OriginalRate(a.wallet_id, a.txid) + MinRelayIncrement
            /\ (a.txid \in WellFormedTxids /\ ~Replaceable(a.wallet_id, a.txid)) =>
                   result = RetErr("IrreplaceableTransaction")
            /\ (Replaceable(a.wallet_id, a.txid)
                  /\ a.fee_rate <= OriginalRate(a.wallet_id, a.txid) + MinRelayIncrement) =>
                   result.tag = "Err"

\* C8 without the aborts: the same rule, where "rejected" only says that no
\* PSBT comes back.
C8_BumpRuleNoPsbt ==
    IsCall("bump_fee_tx_builder_finish") =>
        LET a == call.args
        IN  /\ result.tag = "Ok" =>
                /\ Replaceable(a.wallet_id, a.txid)
                /\ a.fee_rate > OriginalRate(a.wallet_id, a.txid) + MinRelayIncrement
            /\ (a.txid \in WellFormedTxids /\ ~Replaceable(a.wallet_id, a.txid)) =>
                   result = RetErr("IrreplaceableTransaction")
            /\ (Replaceable(a.wallet_id, a.txid)
                  /\ a.fee_rate <= OriginalRate(a.wallet_id, a.txid) + MinRelayIncrement) =>
                   result.tag \in {"Err", "Panic"}

\* C10: at most one of fee_rate and fee_absolute is applied to the builder; a
\* call that supplies both does not configure the builder with both.
C10_OneFeeSetter ==
    (IsCall("tx_builder_finish") /\ call.configured) => Len(call.builder.fee_setters) <= 1

\* C11: in a successful tx_builder_finish without manually_selected_only, every
\* input that is neither a must-include UTXO nor the foreign UTXO is a UTXO of
\* the wallet, is not in the unspendable set, and satisfies the change policy:
\* not Internal under ChangeForbidden, only Internal under OnlyChange.
AutoSelected == { u \in BuiltTx.inputs : u.outpoint \notin ManualOutpoints }
C11_AutoSelectedEligible ==
    (BuildOk("tx_builder_finish") /\ ~call.args.manually_selected_only) =>
        \A u \in AutoSelected :
            /\ u \in WalletUtxos(call.args.wallet_id)
            /\ u.outpoint \notin call.args.unspendable
            /\ call.args.change_policy = "ChangeForbidden" => u.keychain # "Internal"
            /\ call.args.change_policy = "OnlyChange" => u.keychain = "Internal"

\* 2,000 sat paid from w1 with u1 unspendable and change forbidden: the two
\* larger UTXOs are passed over and the smallest one is selected.
C11_Witness ==
    /\ BuildOk("tx_builder_finish")
    /\ ~call.args.manually_selected_only
    /\ call.args.wallet_id = "w1"
    /\ call.args.unspendable = {"u1"}
    /\ call.args.change_policy = "ChangeForbidden"
    /\ call.args.utxos = {}
    /\ ~call.args.foreign_utxo.some
    /\ { u.outpoint : u \in AutoSelected } = {"u3"}

\* Inputs drawn from the change keychain alone, next to a must-include UTXO.
C11_WitnessOnlyChange ==
    /\ BuildOk("tx_builder_finish")
    /\ ~call.args.manually_selected_only
    /\ call.args.change_policy = "OnlyChange"
    /\ { u.outpoint : u \in AutoSelected } = {"u2"}

\* C13: in bump_fee_tx_builder_finish, whenever the caller supplies
\* n_sequence = Some(n) the RBF setting in effect at finish is n, whether
\* enable_rbf is true or false; the default sequence (0xFFFFFFFD) is in effect
\* only when n_sequence is absent and enable_rbf is true.
C13_SequenceWins ==
    (IsCall("bump_fee_tx_builder_finish") /\ call.configured) =>
        LET a == call.args
            rbf == call.builder.rbf
        IN  /\ a.n_sequence.some => rbf = [kind |-> "value", n |-> a.n_sequence.val]
            /\ rbf.kind = "default" => (~a.n_sequence.some /\ a.enable_rbf)
            /\ (result.tag = "Ok" /\ a.n_sequence.some) =>
                   BuiltTx.sequence = a.n_sequence.val

\* C14: for a valid PSBT and a wallet whose signing does not error, sign returns
\* None if and only if the signing pass reports not-finalized and sign_options is
\* absent or has is_multi_sig false; in every other case it returns
\* Some(serialized PSBT), so a not-finalized pass with is_multi_sig set returns
\* the same kind of value as a finalized pass.
SignPass == WalletSign(call.wallet_id, ParsePsbt(call.psbt_str).psbt)
SignApplies ==
    /\ IsCall("sign")
    /\ ParsePsbt(call.psbt_str).ok
    /\ SignPass.ok
C14_SignNoneIff ==
    SignApplies =>
        /\ result = RetNone <=>
               /\ ~SignPass.finalized
               /\ (~call.sign_options.some \/ ~call.sign_options.is_multi_sig)
        /\ result # RetNone => result = RetSome(Serialize(SignPass.psbt))

\* A pass over tx1 that leaves it short of signatures, answered with Some
\* because is_multi_sig is set.
C14_Witness ==
    /\ SignApplies
    /\ ~SignPass.finalized
    /\ call.sign_options.some
    /\ call.sign_options.is_multi_sig
    /\ result = RetSome(Serialize(SignPass.psbt))

\* The same pass without options, answered with None.
C14_WitnessNone ==
    /\ SignApplies
    /\ ~SignPass.finalized
    /\ ~call.sign_options.some
    /\ result = RetNone

(***************************************************************************)
(* The concurrent view: threads inside the handlers that take a wallet's   *)
(* guard (tx_builder_finish, bump_fee_tx_builder_finish, sign), one step   *)
(* per statement that touches the guard or the wallet's change index.      *)
(***************************************************************************)
GuardedOps == { "tx_builder_finish", "bump_fee_tx_builder_finish", "sign" }
BuildOps == { "tx_builder_finish", "bump_fee_tx_builder_finish" }

\* The thread holds the guard of the wallet it names.
Holding(t) == pc[t] \in { "locked", "read", "done" }

\* A caller enters a handler naming a wallet.
StartCall(t) ==
    /\ pc[t] = "idle"
    /\ \E op \in GuardedOps, w \in WalletIds :
        /\ internal_index[w] < MaxIndex
        /\ t_op' = [t_op EXCEPT ![t] = op]
        /\ t_wallet' = [t_wallet EXCEPT ![t] = w]
    /\ pc' = [pc EXCEPT ![t] = "retrieve"]
    /\ UNCHANGED <<seqVars, internal_index, t_index, lock, issued>>

\* Wallet::retrieve_wallet(wallet_id) and get_wallet(): the thread waits for the
\* mutex of that wallet and takes its guard.
GetWallet(t) ==
    /\ pc[t] = "retrieve"
    /\ lock[t_wallet[t]] = NoThread
    /\ lock' = [lock EXCEPT ![t_wallet[t]] = t]
    /\ pc' = [pc EXCEPT ![t] = "locked"]
    /\ UNCHANGED <<seqVars, internal_index, t_op, t_wallet, t_index, issued>>

\* ReadIndex run on the wallet before its guard is taken.
ReadIndexUnguarded(t) ==
    /\ pc[t] \in { "retrieve", "locked" }
    /\ t_op[t] \in BuildOps
    /\ t_index' = [t_index EXCEPT ![t] = internal_index[t_wallet[t]]]
    /\ pc' = [pc EXCEPT ![t] = "read"]
    /\ UNCHANGED <<seqVars, internal_index, t_op, t_wallet, lock, issued>>

\* build_tx() .. finish() on the guarded wallet: finish reads the wallet's next
\* unused change index.
ReadIndex(t) ==
    /\ pc[t] = "locked"
    /\ t_op[t] \in BuildOps
    /\ t_index' = [t_index EXCEPT ![t] = internal_index[t_wallet[t]]]
    /\ pc' = [pc EXCEPT ![t] = "read"]
    /\ UNCHANGED <<seqVars, internal_index, t_op, t_wallet, lock, issued>>

\* finish pays the change to the address of the index it read and advances the index.
UpdateIndex(t) ==
    /\ pc[t] = "read"
    /\ internal_index' = [internal_index EXCEPT ![t_wallet[t]] = t_index[t] + 1]
    /\ issued' = [issued EXCEPT ![t_wallet[t]] = Append(@, t_index[t])]
    /\ pc' = [pc EXCEPT ![t] = "done"]
    /\ UNCHANGED <<seqVars, t_op, t_wallet, t_index, lock>>

\* finish fails, or builds a transaction without a change output of the wallet.
KeepIndex(t) ==
    /\ pc[t] = "read"
    /\ pc' = [pc EXCEPT ![t] = "done"]
    /\ UNCHANGED <<seqVars, internal_index, t_op, t_wallet, t_index, lock, issued>>

\* Wallet::sign signs under the guard.
SignUnderGuard(t) ==
    /\ pc[t] = "locked"
    /\ t_op[t] = "sign"
    /\ pc' = [pc EXCEPT ![t] = "done"]
    /\ UNCHANGED <<seqVars, internal_index, t_op, t_wallet, t_index, lock, issued>>

\* The handler returns and its guard is dropped.
DropGuard(t) ==
    /\ pc[t] = "done"
    /\ lock' = [lock EXCEPT ![t_wallet[t]] = NoThread]
    /\ pc' = [pc EXCEPT ![t] = "idle"]
    /\ t_op' = [t_op EXCEPT ![t] = "none"]
    /\ t_wallet' = [t_wallet EXCEPT ![t] = "none"]
    /\ UNCHANGED <<seqVars, internal_index, t_index, issued>>

NextConc ==
    \E t \in Threads :
        \/ StartCall(t) \/ GetWallet(t) \/ ReadIndex(t) \/ UpdateIndex(t)
        \/ KeepIndex(t) \/ SignUnderGuard(t) \/ DropGuard(t)

SpecConc == Init /\ [][NextConc]_vars

\* C9: build, fee bump and sign on one wallet exclude one another: at most one
\* thread is between reading and updating that wallet's state, no two builds
\* are handed the same change index, and a call is never kept waiting by a call
\* that names another wallet.
C9_PerWalletExclusion ==
    /\ \A a \in Threads, b \in Threads :
           (a # b /\ Holding(a) /\ Holding(b)) => t_wallet[a] # t_wallet[b]
    /\ \A w \in WalletIds : \A i \in 1..Len(issued[w]), j \in 1..Len(issued[w]) :
           i # j => issued[w][i] # issued[w][j]
    /\ \A t \in Threads :
           (pc[t] = "retrieve" /\ lock[t_wallet[t]] # NoThread) =>
               /\ Holding(lock[t_wallet[t]])
               /\ t_wallet[lock[t_wallet[t]]] = t_wallet[t]

\* One build has read the index of w1 after an earlier build advanced it, while
\* a build on the other thread waits for the same wallet.
C9_Witness ==
    /\ pc["t1"] = "read" /\ t_op["t1"] = "tx_builder_finish" /\ t_wallet["t1"] = "w1"
    /\ pc["t2"] = "retrieve" /\ t_op["t2"] = "bump_fee_tx_builder_finish"
    /\ t_wallet["t2"] = "w1"
    /\ issued["w1"] = <<0>>
    /\ t_index["t1"] = 1

(***************************************************************************)
(* The fee/size iteration of finish, one round per step (modelled from     *)
(* step 3 of section 4.2 and from section 7 of the design).  `result`      *)
(* holds the state of the loop while the handler is inside finish.         *)
(***************************************************************************)
Running == result.tag = "Running"

\* The selected inputs cover the recipients and the fee of the transaction they make.
Sufficient(b, selected) ==
    SumValues(selected) >=
        SumAmounts(b.recipients) + PolicyFee(b, selected, Len(FixedOutputs(b)))

\* What finish does once the inputs are settled: steps 4 to 6.
CompleteTx(b, inputs, index) ==
    IF FixedOutputs(b) = <<>> /\ ~b.drain_to.some
    THEN [ok |-> FALSE, err |-> "NoRecipients"]
    ELSE LET out == WithChange(b, inputs, index)
         IN  IF ~out.ok THEN out
             ELSE IF b.rbf.kind = "value" /\ ~SeqLess(b.rbf.n, SEQ_RBF_LIMIT)
             THEN [ok |-> FALSE,
                   err |-> "Generic(Cannot enable RBF with a nSequence >= 0xFFFFFFFE)"]
             ELSE out

\* Api::tx_builder_finish up to the call of finish, and the first round's inputs.
StartFinish ==
    /\ call = NoCall
    /\ \E a \in FinishArgs :
        /\ internal_index[a.wallet_id] < MaxIndex
        /\ LET c == TxBuilderConfigure(a)
           IN  IF ~c.ok
               THEN /\ call' = [op |-> "tx_builder_finish", args |-> a, configured |-> FALSE]
                    /\ result' = Panic(c.why)
               ELSE LET candidates == IF c.b.manually_selected_only THEN {} ELSE Eligible(c.b)
                    IN  /\ call' = [op |-> "tx_builder_finish", args |-> a,
                                    configured |-> TRUE, builder |-> c.b,
                                    index |-> internal_index[a.wallet_id],
                                    rounds |-> 0, tried |-> {}, left |-> {}]
                        /\ result' = [tag |-> "Running",
                                      selected |-> IF c.b.drain_wallet
                                                   THEN c.b.utxos \cup candidates
                                                   ELSE c.b.utxos,
                                      rest |-> IF c.b.drain_wallet THEN {} ELSE candidates,
                                      round |-> 1]
    /\ UNCHANGED <<internal_index, concVars>>

\* The loop leaves with an outcome; the rounds it ran are kept with the call.
Leave(f) ==
    /\ call' = [call EXCEPT !.rounds = result.round, !.tried = result.selected,
                            !.left = result.rest]
    /\ result' = FinishResult(f)
    /\ internal_index' =
           [internal_index EXCEPT ![call.args.wallet_id] =
               IF f.ok /\ f.used_index THEN call.index + 1 ELSE call.index]
    /\ UNCHANGED concVars

\* FeeRound with no cap on the rounds.
FeeRoundUncapped ==
    /\ Running
    /\ ~Sufficient(call.builder, result.selected)
    /\ result.rest # {}
    /\ result' = [result EXCEPT !.selected = @ \cup {Largest(result.rest)},
                                !.rest = @ \ {Largest(result.rest)},
                                !.round = @ + 1]
    /\ UNCHANGED <<call, internal_index, concVars>>

\* The inputs do not cover the fee of the current set: one more input, one more round.
FeeRound ==
    /\ Running
    /\ result.round < MaxFeeRounds
    /\ ~Sufficient(call.builder, result.selected)
    /\ result.rest # {}
    /\ result' = [result EXCEPT !.selected = @ \cup {Largest(result.rest)},
                                !.rest = @ \ {Largest(result.rest)},
                                !.round = @ + 1]
    /\ UNCHANGED <<call, internal_index, concVars>>

\* The inputs cover recipients and fee: the outputs are completed.
Converge ==
    /\ Running
    /\ result.round <= MaxFeeRounds
    /\ Sufficient(call.builder, result.selected)
    /\ Leave(CompleteTx(call.builder, result.selected, call.index))

\* Nothing is left to add.
Exhausted ==
    /\ Running
    /\ result.round <= MaxFeeRounds
    /\ ~Sufficient(call.builder, result.selected)
    /\ result.rest = {}
    /\ Leave([ok |-> FALSE, err |-> "InsufficientFunds"])

\* The last round allowed has not converged.
GiveUp ==
    /\ Running
    /\ result.round >= MaxFeeRounds
    /\ ~Sufficient(call.builder, result.selected)
    /\ result.rest # {}
    /\ Leave([ok |-> FALSE, err |-> "FeeEstimationFailed"])

\* The handler returns what finish gave.
ReturnFinish ==
    /\ call # NoCall
    /\ result.tag \in { "Ok", "Err" }
    /\ call' = NoCall
    /\ result' = NoResult
    /\ UNCHANGED <<internal_index, concVars>>

FinishStep == FeeRound \/ Converge \/ Exhausted \/ GiveUp

NextFinish == StartFinish \/ FeeRound \/ Converge \/ Exhausted \/ GiveUp \/ ReturnFinish

\* The thread inside finish keeps running.
SpecFinish == Init /\ [][NextFinish]_vars /\ WF_vars(FinishStep)

\* What holds of the loop in every state.
FinishBounded ==
    (IsCall("tx_builder_finish") /\ call.configured) =>
        /\ Running => result.round \in 1..MaxFeeRounds
        /\ ~Running =>
               /\ call.rounds \in 1..MaxFeeRounds
               /\ result = TxBuilderFinishBody(call.args, call.index).result
               /\ result = RetErr("FeeEstimationFailed") <=>
                      /\ call.rounds = MaxFeeRounds
                      /\ ~Sufficient(call.builder, call.tried)
                      /\ call.left # {}

====
